---- MODULE Spec2Model ----
(***************************************************************************)
(* serde_prom: a serde Serializer that flattens a structured value into    *)
(* Prometheus text.  The model follows src/src/ser.rs: the serializer's    *)
(* fields are the variables, every Serializer / SerializeStruct /          *)
(* SerializeSeq method that the traversal of a value calls is an action,   *)
(* and the sink is the sequence of the byte strings handed to write_all.   *)
(* Text is a TLA+ string; a label value is a sequence of one-character     *)
(* strings where the code walks it character by character.                 *)
(***************************************************************************)
EXTENDS Integers, Sequences, FiniteSets, TLC

VARIABLES
    namespace,       \* PrometheusSerializer::namespace: None or Some(ns)
    metadata,        \* PrometheusSerializer::metadata: name -> MetricDescriptor
    current_prefix,  \* PrometheusSerializer::current_prefix
    seen_metrics,    \* PrometheusSerializer::seen_metrics
    output,          \* PrometheusSerializer::output: the write_all calls that succeeded
    fail_at,         \* the sink: the number of the write_all call that fails, 0 = never
    attempts,        \* the sink: how many write_all calls have been made on it
    result,          \* what the top-level call has returned, once it has
    stack,           \* the records and sequences being serialized and the active
                     \* serialize_field / serialize_some calls, outermost first
    visited,         \* how many values the traversal has dispatched on so far
    pc,              \* where the traversal stands
    val,             \* escape_label_value: its argument
    escaped,         \* escape_label_value: its result
    esc_pc           \* escape_label_value: "idle", "called" or "returned"

vars == <<namespace, metadata, current_prefix, seen_metrics, output, fail_at,
          attempts, result, stack, visited, pc, val, escaped, esc_pc>>

serializer == <<namespace, metadata, current_prefix, seen_metrics, output, fail_at,
                attempts, result, stack, visited, pc>>

escaper == <<val, escaped, esc_pc>>

---------------------------------------------------------------------------
(* Bounds of the model. *)

\* Values (scalars, options, records, sequences) in the value that is serialized.
MaxValues == 4

\* Elements of one sequence.
MaxSeqLen == 2

\* Characters of a label value given to escape_label_value on its own.
MaxLen == 3

\* The latest write_all call on the caller's sink that may be the failing one.
MaxFailAt == 16

---------------------------------------------------------------------------
(* Option<T> *)

None == <<>>

Some(x) == <<x>>

---------------------------------------------------------------------------
(* MetricType and MetricDescriptor *)

MetricType == {"Untyped", "Counter", "Gauge", "Histogram", "Summary"}

\* strum's AsRefStr with serialize_all = "snake_case"
MetricTypeAsRef(t) ==
    CASE t = "Untyped"   -> "untyped"
      [] t = "Counter"   -> "counter"
      [] t = "Gauge"     -> "gauge"
      [] t = "Histogram" -> "histogram"
      [] t = "Summary"   -> "summary"

\* MetricDescriptor::default(): MetricType::default(), "", vec![], None
default_desc ==
    [metric_type |-> "Untyped", help |-> "", labels |-> <<>>, rename |-> None]

---------------------------------------------------------------------------
(* Inputs: the values, namespaces and metadata tables the runs draw from. *)

\* Record field names; a_b is both one field and the path of field b in field a.
FieldNames == {"a", "b", "a_b"}

Namespaces == {None, Some("my")}

\* Names a metadata table may have an entry for: bare and namespaced.
MetadataKeys == {"a", "my_a"}

\* As "one" in test_parse_simple: help, no labels, a rename.
DescOne ==
    [metric_type |-> "Counter", help |-> "First one",
     labels |-> <<>>, rename |-> Some("one_total")]

\* As "my_errors" in serialize_nested, with a second label and no help.
DescErrors ==
    [metric_type |-> "Gauge", help |-> "",
     labels |-> << <<"endpoint", <<"l", "\"">> >>, <<"thing", <<"s">> >> >>,
     rename |-> None]

\* The entry a table has for a name, when it has one: the bare name "a" and
\* the namespaced name "my_a" are described differently.
Entry(name) == IF name = "a" THEN DescOne ELSE DescErrors

\* The common labels the caller of serialize_nested passes: [("app", "myapp")].
CommonLabels == << <<"app", <<"m", "y", "a", "p", "p">> >> >>

MetadataTables == {[name \in K |-> Entry(name)] : K \in SUBSET MetadataKeys}

\* The integers a numeric leaf may hold.
IntValues == {55}

\* The characters of label values: backslash, double quote, newline, ordinary.
Chars == {"\\", "\"", "\n", "a", "n"}

RECURSIVE SeqsUpTo(_, _)
SeqsUpTo(S, n) ==
    IF n = 0 THEN {<<>>}
    ELSE LET shorter == SeqsUpTo(S, n - 1)
         IN  shorter \cup {Append(s, c) : s \in shorter, c \in S}

---------------------------------------------------------------------------
(* Text helpers *)

\* The String made of the given characters.
RECURSIVE Str(_)
Str(chars) == IF chars = <<>> THEN "" ELSE Head(chars) \o Str(Tail(chars))

Digit(d) ==
    CASE d = 0 -> "0" [] d = 1 -> "1" [] d = 2 -> "2" [] d = 3 -> "3"
      [] d = 4 -> "4" [] d = 5 -> "5" [] d = 6 -> "6" [] d = 7 -> "7"
      [] d = 8 -> "8" [] d = 9 -> "9"

\* u64::to_string: the decimal digits, most significant first.
RECURSIVE to_string(_)
to_string(v) == IF v < 10 THEN Digit(v) ELSE to_string(v \div 10) \o Digit(v % 10)

---------------------------------------------------------------------------
(* PrometheusSerializer: escape_label_value and write_metric *)

\* One arm of the match in escape_label_value.
escape_char(c) ==
    CASE c = "\\" -> <<"\\", "\\">>
      [] c = "\"" -> <<"\\", "\"">>
      [] OTHER    -> <<c>>

\* for c in val.chars() { match c { ... } }
RECURSIVE escape_label_value(_)
escape_label_value(v) ==
    IF v = <<>> THEN <<>>
    ELSE escape_char(Head(v)) \o escape_label_value(Tail(v))

\* full_metric_name: format!("{ns}_{metric_name}") under a namespace.
full_metric_name(ns, metric_name) ==
    IF ns # None THEN ns[1] \o "_" \o metric_name ELSE metric_name

\* A resolver that asks for the namespaced entry before the bare one.
descriptor_namespaced_first(md, ns, metric_name) ==
    IF ns # None /\ full_metric_name(ns, metric_name) \in DOMAIN md
    THEN md[full_metric_name(ns, metric_name)]
    ELSE IF metric_name \in DOMAIN md THEN md[metric_name]
         ELSE default_desc

\* desc: the bare name, else under a namespace the full name, else the default.
descriptor(md, ns, metric_name) ==
    IF metric_name \in DOMAIN md THEN md[metric_name]
    ELSE IF ns # None /\ full_metric_name(ns, metric_name) \in DOMAIN md
         THEN md[full_metric_name(ns, metric_name)]
         ELSE default_desc

\* A check that forgets seen_metrics: the header before every sample.
header_needed_always(seen, metric_name) == TRUE

\* if !self.seen_metrics.contains(metric_name)
header_needed(seen, metric_name) == metric_name \notin seen

\* The write_all calls of the # HELP / # TYPE block.
header_writes(full, desc) ==
    << "# HELP ", full, " ", (IF desc.help = "" THEN "?" ELSE desc.help), "\n",
       "# TYPE ", full, " ", MetricTypeAsRef(desc.metric_type), "\n" >>

\* The write_all calls of the loop over desc.labels, from label i on.
RECURSIVE label_writes(_, _)
label_writes(labels, i) ==
    IF i > Len(labels) THEN <<>>
    ELSE (IF i > 1 THEN <<",">> ELSE <<>>)
         \o << labels[i][1], "=\"", Str(escape_label_value(labels[i][2])), "\"" >>
         \o label_writes(labels, i + 1)

\* The write_all calls of the sample line: metric_name{labels} value
sample_writes(full, desc, value) ==
    <<full>>
    \o (IF Len(desc.labels) > 0
        THEN <<"{">> \o label_writes(desc.labels, 1) \o <<"}">>
        ELSE <<>>)
    \o <<" ", value, "\n">>

\* How many of the next n write_all calls the sink takes before one fails: it
\* fails the call numbered fail_at.
Accepted(n) ==
    IF fail_at > attempts /\ fail_at <= attempts + n THEN fail_at - attempts - 1 ELSE n

\* A write_metric that goes on writing after a write_all has failed.
Attempted_all(n) == n

\* How many of its n write_all calls write_metric makes: `?` returns at the
\* first that fails.
Attempted(n) == IF Accepted(n) = n THEN n ELSE Accepted(n) + 1

\* impl From<io::Error> for PrometheusError (#[from]): the Write variant.
from_io_error(e) == [variant |-> "Write", source |-> e]

\* The io::Error of the sink: the write_all call that failed.
io_error(n) == [write |-> n]

---------------------------------------------------------------------------
(* The output read back as text lines. *)

\* The complete lines of out, each the writes that make it, without its "\n".
RECURSIVE SplitLines(_, _, _)
SplitLines(out, i, cur) ==
    IF i > Len(out) THEN <<>>
    ELSE IF out[i] = "\n" THEN <<cur>> \o SplitLines(out, i + 1, <<>>)
    ELSE SplitLines(out, i + 1, Append(cur, out[i]))

Lines(out) == SplitLines(out, 1, <<>>)

IsHelp(line) == Len(line) > 0 /\ line[1] = "# HELP "

IsType(line) == Len(line) > 0 /\ line[1] = "# TYPE "

IsBlank(line) == line = <<>>

IsSample(line) == Len(line) > 0 /\ ~IsHelp(line) /\ ~IsType(line)

\* The metric name a line is about.
LineName(line) == IF IsHelp(line) \/ IsType(line) THEN line[2] ELSE line[1]

\* The writes of a sample line between its name and the " " before its value.
LineLabels(line) == SubSeq(line, 2, Len(line) - 2)

---------------------------------------------------------------------------
(* The traversal: the Serializer methods a value's Serialize impl calls.   *)
(* pc = "value": value.serialize(self) is about to dispatch on a value at   *)
(* the current prefix; "fields": between the fields of a record;            *)
(* "elements": between the elements of a sequence; "ret": a value has       *)
(* returned Ok(()); "done" / "error": the top-level call has returned.      *)

\* fn write_metric(&mut self, value: &str): every write_all in order, each `?`
\* ending the call (and, through the callers' `?`, the whole traversal).
write_metric(value) ==
    LET metric_name == current_prefix
        full   == full_metric_name(namespace, metric_name)
        desc   == descriptor(metadata, namespace, metric_name)
        header == IF header_needed(seen_metrics, metric_name)
                  THEN header_writes(full, desc) ELSE <<>>
        writes == header \o sample_writes(full, desc, value)
        n_ok   == Accepted(Len(writes))
    IN  /\ output' = output \o SubSeq(writes, 1, n_ok)
        /\ seen_metrics' = IF header # <<>> /\ n_ok >= Len(header)
                           THEN seen_metrics \cup {metric_name}
                           ELSE seen_metrics
        /\ attempts' = attempts + Attempted(Len(writes))
        /\ pc' = IF n_ok = Len(writes) THEN "ret" ELSE "error"
        /\ stack' = IF n_ok = Len(writes) THEN stack ELSE <<>>
        /\ result' = IF n_ok = Len(writes) THEN result
                      ELSE [kind |-> "Err", error |-> from_io_error(io_error(fail_at))]
        /\ visited' = visited + 1
        /\ UNCHANGED <<namespace, metadata, current_prefix, fail_at>>

\* serialize_bool
SerializeBool ==
    /\ pc = "value"
    /\ \E v \in BOOLEAN : write_metric(IF v THEN "1" ELSE "0")
    /\ UNCHANGED escaper

\* serialize_i8 .. serialize_u64: write_metric(&v.to_string()); serialize_f32 and
\* serialize_f64 do the same with the float's text.
SerializeInteger ==
    /\ pc = "value"
    /\ \E v \in IntValues : write_metric(to_string(v))
    /\ UNCHANGED escaper

\* serialize_char, serialize_str, serialize_bytes, serialize_none, serialize_unit,
\* serialize_unit_struct, serialize_unit_variant, serialize_newtype_variant: Ok(())
SerializeSkipped ==
    /\ pc = "value"
    /\ pc' = "ret"
    /\ visited' = visited + 1
    /\ UNCHANGED <<namespace, metadata, current_prefix, seen_metrics, output,
                   fail_at, attempts, result, stack, escaper>>

\* serialize_some, serialize_newtype_struct: value.serialize(self)
SerializeSome ==
    /\ pc = "value"
    /\ visited + 1 < MaxValues
    /\ stack' = Append(stack, [kind |-> "some"])
    /\ visited' = visited + 1
    /\ UNCHANGED <<namespace, metadata, current_prefix, seen_metrics, output,
                   fail_at, attempts, result, pc, escaper>>

\* serialize_some, serialize_newtype_struct: the inner value has returned Ok.
SomeReturn ==
    /\ pc = "ret"
    /\ stack # <<>>
    /\ stack[Len(stack)].kind = "some"
    /\ stack' = SubSeq(stack, 1, Len(stack) - 1)
    /\ UNCHANGED <<namespace, metadata, current_prefix, seen_metrics, output,
                   fail_at, attempts, result, visited, pc, escaper>>

\* serialize_struct: Ok(self); the record then hands over its fields, each
\* field name once.
SerializeStruct ==
    /\ pc = "value"
    /\ stack' = Append(stack, [kind |-> "struct", fields |-> {}])
    /\ pc' = "fields"
    /\ visited' = visited + 1
    /\ UNCHANGED <<namespace, metadata, current_prefix, seen_metrics, output,
                   fail_at, attempts, result, escaper>>

\* SerializeStruct::serialize_field, up to value.serialize(&mut **self):
\* the prefix with field_name appended, after a '_' unless it was empty.
enter_prefix(prefix, field_name) ==
    (IF prefix # "" THEN prefix \o "_" ELSE prefix) \o field_name

\* A serialize_field that does not put old_prefix back.
leave_prefix_kept(prefix, old_prefix) == prefix

\* SerializeStruct::serialize_field, after value.serialize returned Ok:
\* self.current_prefix = old_prefix
leave_prefix(prefix, old_prefix) == old_prefix

SerializeField ==
    /\ pc = "fields"
    /\ visited < MaxValues
    /\ \E field_name \in FieldNames \ stack[Len(stack)].fields :
        /\ stack' = Append([stack EXCEPT ![Len(stack)].fields = @ \cup {field_name}],
                           [kind |-> "field", old_prefix |-> current_prefix,
                            field_name |-> field_name])
        /\ current_prefix' = enter_prefix(current_prefix, field_name)
    /\ pc' = "value"
    /\ UNCHANGED <<namespace, metadata, seen_metrics, output, fail_at, attempts, result, visited,
                   escaper>>

FieldReturn ==
    /\ pc = "ret"
    /\ stack # <<>>
    /\ stack[Len(stack)].kind = "field"
    /\ current_prefix' = leave_prefix(current_prefix, stack[Len(stack)].old_prefix)
    /\ stack' = SubSeq(stack, 1, Len(stack) - 1)
    /\ pc' = "fields"
    /\ UNCHANGED <<namespace, metadata, seen_metrics, output, fail_at, attempts, result, visited,
                   escaper>>

\* SerializeStruct::end: Ok(())
StructEnd ==
    /\ pc = "fields"
    /\ stack' = SubSeq(stack, 1, Len(stack) - 1)
    /\ pc' = "ret"
    /\ UNCHANGED <<namespace, metadata, current_prefix, seen_metrics, output,
                   fail_at, attempts, result, visited, escaper>>

\* serialize_seq, serialize_tuple: Ok(self); the value, a sequence of len records
\* with numeric fields, then hands over its elements one by one.
SerializeSeq ==
    /\ pc = "value"
    /\ \E len \in 0..MaxSeqLen :
        stack' = Append(stack, [kind |-> "seq", len |-> len, next |-> 1])
    /\ pc' = "elements"
    /\ visited' = visited + 1
    /\ UNCHANGED <<namespace, metadata, current_prefix, seen_metrics, output,
                   fail_at, attempts, result, escaper>>

\* SerializeSeq::serialize_element(_value): Ok(()), the element is not serialized.
SerializeElement ==
    /\ pc = "elements"
    /\ stack[Len(stack)].next <= stack[Len(stack)].len
    /\ stack' = [stack EXCEPT ![Len(stack)].next = @ + 1]
    /\ UNCHANGED <<namespace, metadata, current_prefix, seen_metrics, output,
                   fail_at, attempts, result, visited, pc, escaper>>

\* SerializeSeq::end: Ok(())
SeqEnd ==
    /\ pc = "elements"
    /\ stack[Len(stack)].next > stack[Len(stack)].len
    /\ stack' = SubSeq(stack, 1, Len(stack) - 1)
    /\ pc' = "ret"
    /\ UNCHANGED <<namespace, metadata, current_prefix, seen_metrics, output,
                   fail_at, attempts, result, visited, escaper>>

\* to_prometheus_text / write_prometheus_text: value.serialize(..)? returned Ok.
Finish ==
    /\ pc = "ret"
    /\ stack = <<>>
    /\ pc' = "done"
    /\ result' = [kind |-> "Ok", text |-> output]
    /\ UNCHANGED <<namespace, metadata, current_prefix, seen_metrics, output,
                   fail_at, attempts, stack, visited, escaper>>

\* PrometheusSerializer::new, as to_prometheus_text builds it over a Vec<u8>,
\* whose writes never fail.
Init ==
    /\ namespace \in Namespaces
    /\ metadata \in MetadataTables
    /\ current_prefix = ""
    /\ seen_metrics = {}
    /\ output = <<>>
    /\ fail_at = 0
    /\ attempts = 0
    /\ result = [kind |-> "running"]
    /\ stack = <<>>
    /\ visited = 0
    /\ pc = "value"
    /\ val = <<>>
    /\ escaped = <<>>
    /\ esc_pc = "idle"

Next ==
    \/ SerializeBool
    \/ SerializeInteger
    \/ SerializeSkipped
    \/ SerializeSome
    \/ SomeReturn
    \/ SerializeStruct
    \/ SerializeField
    \/ FieldReturn
    \/ StructEnd
    \/ SerializeSeq
    \/ SerializeElement
    \/ SeqEnd
    \/ Finish

Spec == Init /\ [][Next]_vars

\* PrometheusSerializer::new, as write_prometheus_text builds it over the
\* caller's sink: one whose write_all call numbered fail_at fails.
SinkInit ==
    /\ namespace \in Namespaces
    /\ metadata \in MetadataTables
    /\ current_prefix = ""
    /\ seen_metrics = {}
    /\ output = <<>>
    /\ fail_at \in 1..MaxFailAt
    /\ attempts = 0
    /\ result = [kind |-> "running"]
    /\ stack = <<>>
    /\ visited = 0
    /\ pc = "value"
    /\ val = <<>>
    /\ escaped = <<>>
    /\ esc_pc = "idle"

SinkSpec == SinkInit /\ [][Next]_vars

---------------------------------------------------------------------------
(* escape_label_value on its own: called on every label value of the alphabet. *)

EscapeInit ==
    /\ namespace = None
    /\ metadata = <<>>
    /\ current_prefix = ""
    /\ seen_metrics = {}
    /\ output = <<>>
    /\ fail_at = 0
    /\ attempts = 0
    /\ result = [kind |-> "running"]
    /\ stack = <<>>
    /\ visited = 0
    /\ pc = "value"
    /\ val \in SeqsUpTo(Chars, MaxLen)
    /\ escaped = <<>>
    /\ esc_pc = "called"

EscapeLabelValue ==
    /\ esc_pc = "called"
    /\ escaped' = escape_label_value(val)
    /\ esc_pc' = "returned"
    /\ UNCHANGED <<serializer, val>>

EscapeNext == EscapeLabelValue

EscapeSpec == EscapeInit /\ [][EscapeNext]_vars

---------------------------------------------------------------------------
(* Properties.  L is the output read as lines; a line's name, labels and    *)
(* value are read from the writes that make it.                             *)

\* The descriptor a family named `name` is to be written with: path "a" resolves
\* through the table (bare entry first, the namespaced entry only under a
\* namespace), every other path of FieldNames has no entry.
ExpectedDesc(name) ==
    IF name = full_metric_name(namespace, "a")
    THEN IF "a" \in DOMAIN metadata THEN metadata["a"]
         ELSE IF namespace = Some("my") /\ "my_a" \in DOMAIN metadata
              THEN metadata["my_a"]
              ELSE default_desc
    ELSE default_desc

\* The field names of the serialize_field calls that are active, outermost first.
RECURSIVE FieldPath(_)
FieldPath(frames) ==
    IF frames = <<>> THEN <<>>
    ELSE (IF Head(frames).kind = "field" THEN <<Head(frames).field_name>> ELSE <<>>)
         \o FieldPath(Tail(frames))

\* Field names joined by "_".
RECURSIVE JoinPath(_)
JoinPath(names) ==
    IF names = <<>> THEN ""
    ELSE IF Len(names) = 1 THEN names[1]
    ELSE JoinPath(SubSeq(names, 1, Len(names) - 1)) \o "_" \o names[Len(names)]

\* C1 (Header-once): every metric name that has a sample line in the output has
\* exactly one "# HELP" line and exactly one "# TYPE" line, both written before
\* its first sample line, also when the name is reached at several places of the
\* traversal.
HeaderOnce ==
    LET L == Lines(output)
    IN
        \A i \in 1..Len(L) :
            IsSample(L[i]) =>
                /\ Cardinality({h \in 1..Len(L) :
                        IsHelp(L[h]) /\ LineName(L[h]) = LineName(L[i])}) = 1
                /\ Cardinality({t \in 1..Len(L) :
                        IsType(L[t]) /\ LineName(L[t]) = LineName(L[i])}) = 1
                /\ \E h \in 1..(i - 1) :
                        IsHelp(L[h]) /\ LineName(L[h]) = LineName(L[i])
                /\ \E t \in 1..(i - 1) :
                        IsType(L[t]) /\ LineName(L[t]) = LineName(L[i])

\* C1 witness: the record {a_b: n, a: {b: m}}: the nested field a.b has just been
\* written under the name the top-level field a_b was written under, and the
\* output is one header and two sample lines.
HeaderOnceWitness ==
    LET L == Lines(output)
    IN
        /\ pc = "ret"
        /\ visited = 4
        /\ Len(stack) = 4
        /\ stack[1].kind = "struct"
        /\ stack[2] = [kind |-> "field", old_prefix |-> "", field_name |-> "a"]
        /\ stack[3].kind = "struct"
        /\ stack[4] = [kind |-> "field", old_prefix |-> "a", field_name |-> "b"]
        /\ Len(L) = 4
        /\ IsHelp(L[1]) /\ IsType(L[2])
        /\ IsSample(L[3]) /\ IsSample(L[4])
        /\ LineName(L[3]) = full_metric_name(namespace, "a_b")
        /\ LineName(L[4]) = full_metric_name(namespace, "a_b")

\* C2 (Family grouping): the sample lines of one metric name are one contiguous
\* block directly after that name's header, and a blank line is written before
\* every family except the first.
FamilyGrouping ==
    LET L == Lines(output)
    IN
        /\ \A i \in 1..Len(L) :
            IsSample(L[i]) =>
                /\ i > 1
                /\ ~IsBlank(L[i - 1])
                /\ LineName(L[i - 1]) = LineName(L[i])
        /\ \A i \in 1..Len(L) : \A j \in i..Len(L) :
            (/\ IsSample(L[i]) /\ IsSample(L[j])
             /\ LineName(L[i]) = LineName(L[j])) =>
                \A k \in i..j :
                    IsSample(L[k]) /\ LineName(L[k]) = LineName(L[i])
        /\ \A i \in 2..Len(L) :
            (IsHelp(L[i]) \/ (IsType(L[i]) /\ ~IsHelp(L[i - 1]))) =>
                IsBlank(L[i - 1])

\* C3 (Sample keys unique): no two sample lines of the output have the same
\* metric name and the same label set; a repeated key keeps one line.
SampleKeysUnique ==
    LET L == Lines(output)
    IN
        \A i \in 1..Len(L) : \A j \in (i + 1)..Len(L) :
            (IsSample(L[i]) /\ IsSample(L[j])) =>
                <<LineName(L[i]), LineLabels(L[i])>>
                    # <<LineName(L[j]), LineLabels(L[j])>>

\* C4 (Sequences recursed into): when the value serialized is a sequence of
\* records with numeric fields, then once an element has been handed over, its
\* numeric fields are in the output: the output is not empty.
SequenceRecursed ==
    (/\ pc = "elements"
     /\ visited = 1
     /\ stack[1].kind = "seq"
     /\ stack[1].next > 1) => output # <<>>

\* C5 (Rename correctness): when write_metric writes for a leaf whose resolved
\* descriptor has rename = X, every line it writes is named X, prefixed with
\* the namespace when one is set, and none is named after the path.
RenameCorrect ==
    [][output' # output =>
        LET desc == descriptor(metadata, namespace, current_prefix)
            old  == Lines(output)
            new  == Lines(output')
        IN  desc.rename # None =>
                \A i \in (Len(old) + 1)..Len(new) :
                    LineName(new[i]) = full_metric_name(namespace, desc.rename[1])]_vars

\* C6 (Label composition): the labels of every sample line written are the
\* call-scoped labels (none are in force here), then the common labels of the
\* call, then the static labels of the resolved descriptor, in braces that are
\* left out only when there is no label at all.
LabelComposition ==
    [][output' # output =>
        LET desc == descriptor(metadata, namespace, current_prefix)
            composed == CommonLabels \o desc.labels
            new  == Lines(output')
            line == new[Len(new)]
        IN  LineLabels(line) =
                IF composed = <<>> THEN <<>>
                ELSE <<"{">> \o label_writes(composed, 1) \o <<"}">>]_vars

\* C7 (Metadata resolution order): every family is written with the table entry
\* of its bare path name if there is one, else under a namespace with the entry
\* of the namespaced name, else with the default descriptor: its TYPE line shows
\* that descriptor's type, its sample lines that descriptor's labels.
ResolutionOrder ==
    LET L == Lines(output)
    IN
        \A i \in 1..Len(L) :
            /\ IsType(L[i]) =>
                L[i][4] = MetricTypeAsRef(ExpectedDesc(LineName(L[i])).metric_type)
            /\ IsSample(L[i]) =>
                (LineLabels(L[i]) = <<>>)
                    = (ExpectedDesc(LineName(L[i])).labels = <<>>)

\* C7 witness: under namespace "my" the table has different entries for "a" and
\* for "my_a", and the family my_a has been written with the type of "a".
ResolutionOrderWitness ==
    LET L == Lines(output)
    IN
        /\ namespace = Some("my")
        /\ DOMAIN metadata = {"a", "my_a"}
        /\ metadata["a"] = DescOne
        /\ metadata["my_a"] = DescErrors
        /\ pc = "done"
        /\ Len(L) = 3
        /\ L[2] = <<"# TYPE ", "my_a", " ", "counter">>
        /\ L[3] = <<"my_a", " ", "55">>

\* C8 (Header shape): a family whose descriptor has an empty help text has no
\* "# HELP" line, only its "# TYPE" line; with a help text, the "# HELP" line
\* carries it and the "# TYPE" line follows.
HeaderShape ==
    LET L == Lines(output)
    IN
        \A i \in 1..Len(L) :
            /\ IsHelp(L[i]) =>
                /\ ExpectedDesc(LineName(L[i])).help # ""
                /\ L[i][4] = ExpectedDesc(LineName(L[i])).help
            /\ (IsType(L[i]) /\ ExpectedDesc(LineName(L[i])).help # "") =>
                /\ i > 1
                /\ IsHelp(L[i - 1])
                /\ LineName(L[i - 1]) = LineName(L[i])

\* C9 (Name derivation): every line write_metric writes is named by the field
\* names of the active serialize_field calls joined by "_", behind the
\* namespace and "_" when a namespace is set; wrappers and the fields visited
\* before add nothing.
NameDerivation ==
    [][output' # output =>
        LET old == Lines(output)
            new == Lines(output')
        IN  \A i \in (Len(old) + 1)..Len(new) :
                LineName(new[i])
                    = full_metric_name(namespace, JoinPath(FieldPath(stack)))]_vars

\* C9 witness: the record {a: Some({b: n}), ...}: field b of the optional record
\* in field a has been written as a_b.
NameDerivationWitness ==
    LET L == Lines(output)
    IN
        /\ pc = "ret"
        /\ Len(stack) = 5
        /\ stack[1].kind = "struct"
        /\ stack[2].kind = "field" /\ stack[2].field_name = "a"
        /\ stack[3].kind = "some"
        /\ stack[4].kind = "struct"
        /\ stack[5].kind = "field" /\ stack[5].field_name = "b"
        /\ Len(L) = 3
        /\ IsSample(L[3])
        /\ LineName(L[3]) = full_metric_name(namespace, "a_b")

\* The escaped text read back: every backslash starts a two-character escape,
\* and no double quote stands outside one.
RECURSIVE WellEscaped(_)
WellEscaped(e) ==
    IF e = <<>> THEN TRUE
    ELSE IF Head(e) = "\\" THEN Len(e) >= 2 /\ WellEscaped(SubSeq(e, 3, Len(e)))
    ELSE IF Head(e) = "\"" THEN FALSE
    ELSE WellEscaped(Tail(e))

\* The inverse rule: \\ gives backslash, \" gives double quote, \n gives newline.
RECURSIVE unescape(_)
unescape(e) ==
    IF e = <<>> THEN <<>>
    ELSE IF Head(e) = "\\" /\ Len(e) >= 2
         THEN (CASE e[2] = "\\" -> <<"\\">>
                 [] e[2] = "\"" -> <<"\"">>
                 [] e[2] = "n"  -> <<"\n">>
                 [] OTHER       -> <<"\\", e[2]>>)
              \o unescape(SubSeq(e, 3, Len(e)))
         ELSE <<Head(e)>> \o unescape(Tail(e))

\* C10 (Escaping round-trip): the escaped label value holds no raw newline and
\* no unescaped double quote, and unescaping it gives back the value.
EscapingRoundTrip ==
    esc_pc = "returned" =>
        /\ \A i \in 1..Len(escaped) : escaped[i] # "\n"
        /\ WellEscaped(escaped)
        /\ unescape(escaped) = val

----------------------------------------------------------------------------
(* The failing sink. *)

\* The Write variant that carries the sink's failure of its call numbered n.
WriteFailure(n) == [kind |-> "Err", error |-> [variant |-> "Write", source |-> [write |-> n]]]

\* C11: if the sink fails its Nth write_all call, the encode call returns the
\* Write error variant carrying that failure, no write is attempted on the sink
\* after the Nth, the first N-1 writes are all it has taken, the traversal takes
\* no further step (no later field is visited), and a failed call returns an
\* error and no text. Until the Nth call is made, nothing has failed.
MalformedSink ==
    /\ attempts <= fail_at
    /\ attempts = fail_at =>
          /\ pc = "error"
          /\ result = WriteFailure(fail_at)
          /\ Len(output) = fail_at - 1
          /\ ~ ENABLED Next
    /\ attempts < fail_at =>
          /\ pc # "error"
          /\ result.kind # "Err"
          /\ Len(output) = attempts
    /\ result.kind = "Err" => DOMAIN result = {"kind", "error"}
    /\ pc = "error" <=> result.kind = "Err"

\* The sink has failed while the header of a second metric was written, inside
\* a record field, after the first metric was written out whole.
MalformedSinkWitness ==
    /\ pc = "error"
    /\ result = WriteFailure(fail_at)
    /\ attempts = fail_at
    /\ Cardinality(seen_metrics) = 1
    /\ current_prefix # ""
    /\ current_prefix \notin seen_metrics
    /\ LET L == Lines(output)
       IN  \E i \in 1..Len(L) : IsSample(L[i])

----------------------------------------------------------------------------
(* The prefix after a failure. *)

\* C12 (Path prefix restore): every serialize_field call leaves current_prefix
\* as it found it on every exit path, the one where the field's value returns an
\* error included: at any moment the prefix is the path of the serialize_field
\* calls that are still active and nothing else, so it is the parent's prefix
\* when the next sibling is visited and is empty when the top-level call has
\* returned, with Ok or with an error.
PrefixRestored ==
    /\ current_prefix = JoinPath(FieldPath(stack))
    /\ pc \in {"done", "error"} => current_prefix = ""

====
